---- MODULE Spec2Model ----
(***************************************************************************)
(* Hamiltonian paths in tournament graphs (fast-hampath).                  *)
(*                                                                         *)
(* The model follows src/src/tngraph.rs (TournamentGraph), src/src/        *)
(* perm_ll.rs (PLinkedList) and src/src/fastpath.rs (HampathBuilder).      *)
(* NodeIDs are the naturals 0..n-1.  A graph is the function `nodes` from  *)
(* NodeID to that node's out_edges vector (a sequence of NodeIDs, in       *)
(* insertion order).  An Option<usize> is a sequence of length 0 or 1.     *)
(***************************************************************************)
EXTENDS Integers, Sequences, FiniteSets, TLC

VARIABLES pc, ctor, panic_msg, arg_n, edges, nodes, num_nodes, last_node, cur_path, path,
          cand, vp, vp_calls, other, placed, op, it

vars == <<pc, ctor, panic_msg, arg_n, edges, nodes, num_nodes, last_node, cur_path, path,
          cand, vp, vp_calls, other, placed, op, it>>

\* what a direct user of PLinkedList adds to the state
list_vars == <<placed, op, it>>

\* what the operations of PLinkedList leave alone
graph_vars == <<ctor, panic_msg, arg_n, edges, nodes, num_nodes, last_node, path,
                cand, vp, vp_calls, other>>

(***************************************************************************)
(* pc         where the caller is: "start", "graph" (holds a graph from    *)
(*            TournamentGraph::new), "none" (new returned None), "solving" *)
(*            (inside solve_path), "returned" (solution_pair returned the  *)
(*            path and the graph), "panicked"; "list" for a caller that    *)
(*            holds a PLinkedList of its own                               *)
(* ctor       the constructor the caller invoked                           *)
(* panic_msg  the message of the panic that ended the run, if any          *)
(* arg_n, edges   the arguments n and edges of the constructor call        *)
(* nodes      TournamentGraph.nodes: NodeID -> out_edges                   *)
(* num_nodes, last_node, cur_path   the fields of HampathBuilder           *)
(* path       the Vec returned by solve_path                               *)
(* cand, vp, vp_calls   the last candidate given to validate_path, its     *)
(*            outcome, and the number of calls made                        *)
(* other      the edges, graph and path of an earlier solve of the same    *)
(*            tournament, or NoRun                                         *)
(* placed     the ids a direct user of PLinkedList has placed in cur_path  *)
(* op         the last PLinkedList operation of that user, its arguments   *)
(*            and the kinds of the operations before it                    *)
(* it         the PLinkedListIterator of that user: its cursor, the items  *)
(*            yielded so far, the runs completed and the items of run one  *)
(***************************************************************************)

(***************************************************************************)
(* Bounds of the model.                                                    *)
(***************************************************************************)
\* largest node count of a randomly generated tournament
MaxN == 4
\* largest node count of a graph built from an explicit edge list
MaxGraphN == 3
\* longest explicit edge list
MaxEdges == 3
\* validate_path calls made on one graph
MaxCalls == 2
\* longest PLinkedList a direct user creates
MaxListLen == 4
\* iter() runs made on one state of a PLinkedList
MaxIters == 2
\* largest node count of a tournament solved twice, from two edge orders
MaxDetN == 4

(***************************************************************************)
(* Generic helpers.                                                        *)
(***************************************************************************)
None == <<>>
Some(x) == <<x>>

Range(s) == {s[i] : i \in 1..Len(s)}

\* slice::contains / Vec::contains
Contains(s, x) == \E i \in 1..Len(s) : s[i] = x

\* the sequences over S of length len
SeqsOfLen(S, len) == [1..len -> S]

(***************************************************************************)
(* tngraph.rs : Node                                                       *)
(***************************************************************************)
\* Node::neighbor_ids: the ids of the out_edges vector, in vector order
neighbor_ids(out_edges) == [i \in 1..Len(out_edges) |-> out_edges[i]]

\* A faulty variant: the read takes the vector out of the UnsafeCell
out_edges_taken(out_edges) == <<>>

\* The contents of the UnsafeCell after neighbor_ids / get_edges read it:
\* both only iterate over the vector behind the raw pointer.
out_edges_after_read(out_edges) == out_edges

(***************************************************************************)
(* tngraph.rs : TournamentGraph construction                               *)
(***************************************************************************)
\* the node storage after the first loop of new_unchecked
empty_nodes(n) == [i \in 0..(n - 1) |-> <<>>]

\* The second loop of new_unchecked, from edge i on: a self-edge fails the
\* assert_ne!, an id outside the node vector fails the index.
RECURSIVE insert_edges(_, _, _)
insert_edges(nd, es, i) ==
    IF i > Len(es) THEN [panic |-> FALSE, nodes |-> nd]
    ELSE LET src == es[i][1]
             snk == es[i][2]
         IN  IF src = snk THEN [panic |-> TRUE, nodes |-> nd]
             ELSE IF snk \notin DOMAIN nd \/ src \notin DOMAIN nd
                  THEN [panic |-> TRUE, nodes |-> nd]
                  ELSE insert_edges([nd EXCEPT ![src] = Append(@, snk)], es, i + 1)

new_unchecked(n, es) == insert_edges(empty_nodes(n), es, 1)

\* A faulty variant: the duplicate-edge loop is left out
tournament_property_only(nd) ==
    \A i \in DOMAIN nd : \A j \in DOMAIN nd :
        i < j => (Contains(nd[i], j) /= Contains(nd[j], i))

is_valid_tournament_graph(nd) ==
    /\ \A i \in DOMAIN nd : ~(Len(nd[i]) > Cardinality(Range(nd[i])))
    /\ \A i \in DOMAIN nd : \A j \in DOMAIN nd :
        i < j => (Contains(nd[i], j) /= Contains(nd[j], i))

\* TournamentGraph::new: "panic", "None" or "Some" with the graph
new(n, es) ==
    LET result == new_unchecked(n, es)
    IN  IF result.panic THEN [tag |-> "panic", nodes |-> result.nodes]
        ELSE IF is_valid_tournament_graph(result.nodes)
             THEN [tag |-> "Some", nodes |-> result.nodes]
             ELSE [tag |-> "None", nodes |-> result.nodes]

\* number of coins random_edges draws for n nodes
NumPairs(n) == (n * (n - 1)) \div 2

\* A faulty variant: the inner loop starts at 1, the pairs with node 0 get no edge
random_row_skip(i, coins) ==
    [jj \in 1..(i - 1) |-> IF coins[NumPairs(i) + jj + 1] THEN <<i, jj>> ELSE <<jj, i>>]

\* the edges random_edges pushes for the outer index i (j in 0..i)
random_row(i, coins) ==
    [jj \in 1..i |-> IF coins[NumPairs(i) + jj] THEN <<i, jj - 1>> ELSE <<jj - 1, i>>]

RECURSIVE random_edges_upto(_, _)
random_edges_upto(i, coins) ==
    IF i <= 0 THEN <<>>
    ELSE random_edges_upto(i - 1, coins) \o random_row(i - 1, coins)

\* TournamentGraph::random_edges, the k-th random::<bool>() being coins[k]
random_edges(n, coins) == random_edges_upto(n, coins)

(***************************************************************************)
(* tngraph.rs : validate_path                                              *)
(***************************************************************************)
\* The loop of validate_path from path index i on (1-based), cur_id being
\* the node reached.  get_node indexes the node vector, so an id outside
\* it panics.  The graph is threaded through the reads of the UnsafeCells.
RECURSIVE validate_from(_, _, _, _)
validate_from(nd, p, cur_id, i) ==
    IF i > Len(p) THEN [panic |-> FALSE, rv |-> TRUE, nodes |-> nd]
    ELSE IF cur_id \notin DOMAIN nd THEN [panic |-> TRUE, rv |-> FALSE, nodes |-> nd]
    ELSE LET ids   == neighbor_ids(nd[cur_id])
             after == [nd EXCEPT ![cur_id] = out_edges_after_read(@)]
         IN  IF Contains(ids, p[i])
             THEN validate_from(after, p, p[i], i + 1)
             ELSE [panic |-> FALSE, rv |-> FALSE, nodes |-> after]

\* TournamentGraph::validate_path; path[0] of an empty slice panics
validate_path(nd, p) ==
    IF Len(p) /= Cardinality(DOMAIN nd) THEN [panic |-> FALSE, rv |-> FALSE, nodes |-> nd]
    ELSE IF Len(p) = 0 THEN [panic |-> TRUE, rv |-> FALSE, nodes |-> nd]
    ELSE validate_from(nd, p, p[1], 2)

(***************************************************************************)
(* perm_ll.rs : PLinkedList                                                *)
(***************************************************************************)
PLinkedList_new(length, first_id) ==
    [first |-> first_id, last |-> first_id, links |-> [i \in 0..(length - 1) |-> None]]

\* A faulty variant: the new id does not take over the successor of cur
insert_after_drops_successor(l, cur, next) ==
    [first |-> l.first,
     last  |-> IF cur = l.last THEN next ELSE l.last,
     links |-> [l.links EXCEPT ![cur] = Some(next), ![next] = None]]

\* A faulty variant: the tail is never moved
insert_after_keeps_last(l, cur, next) ==
    [first |-> l.first,
     last  |-> l.last,
     links |-> [l.links EXCEPT ![cur] = Some(next), ![next] = l.links[cur]]]

insert_after(l, cur, next) ==
    LET cur_succ == l.links[cur]
    IN  [first |-> l.first,
         last  |-> IF cur = l.last THEN next ELSE l.last,
         links |-> [l.links EXCEPT ![cur] = Some(next), ![next] = cur_succ]]

\* PLinkedList::get_succ, first and last
get_succ(l, cur) == l.links[cur]
PLinkedList_first(l) == l.first
PLinkedList_last(l) == l.last

\* A faulty variant: the tail moves but the old tail is not linked to it
insert_at_end_unlinked(l, new_id) ==
    [first |-> l.first,
     last  |-> new_id,
     links |-> l.links]

\* A faulty variant: the tail is never moved
insert_at_end_keeps_last(l, new_id) ==
    [first |-> l.first,
     last  |-> l.last,
     links |-> [l.links EXCEPT ![l.last] = Some(new_id)]]

insert_at_end(l, new_id) ==
    [first |-> l.first,
     last  |-> new_id,
     links |-> [l.links EXCEPT ![l.last] = Some(new_id)]]

\* A faulty variant: the head is never moved
insert_at_start_keeps_first(l, new_id) ==
    [first |-> l.first,
     last  |-> l.last,
     links |-> [l.links EXCEPT ![new_id] = Some(l.first)]]

\* A faulty variant: the link is written from the old head to the new id
insert_at_start_link_reversed(l, new_id) ==
    [first |-> new_id,
     last  |-> l.last,
     links |-> [l.links EXCEPT ![l.first] = Some(new_id)]]

insert_at_start(l, new_id) ==
    [first |-> new_id,
     last  |-> l.last,
     links |-> [l.links EXCEPT ![new_id] = Some(l.first)]]

\* PLinkedListIterator::new: the cursor starts at the head
iterator_new(l) == Some(l.first)

\* A faulty variant: the iterator ends when the cursor has no successor
iterator_next_stops_early(l, cur) ==
    IF cur = None \/ l.links[cur[1]] = None THEN [rv |-> None, cur |-> None]
    ELSE [rv |-> cur, cur |-> l.links[cur[1]]]

\* PLinkedListIterator::next at cursor cur: the item yielded and the new cursor
iterator_next(l, cur) ==
    IF cur = None THEN [rv |-> None, cur |-> cur]
    ELSE [rv |-> cur, cur |-> l.links[cur[1]]]

\* PLinkedListIterator::next repeated from cursor cur until it yields None;
\* fuel cuts the walk after more items than the list has slots.
RECURSIVE iter_from(_, _, _)
iter_from(l, cur, fuel) ==
    IF fuel = 0 THEN <<>>
    ELSE LET r == iterator_next(l, cur)
         IN  IF r.rv = None THEN <<>>
             ELSE <<r.rv[1]>> \o iter_from(l, r.cur, fuel - 1)

\* iter().collect()
iter(l) == iter_from(l, iterator_new(l), Cardinality(DOMAIN l.links) + 1)

\* the first next() indexes links[first]: out of bounds for an empty list
iter_panics(l) == l.first \notin DOMAIN l.links

(***************************************************************************)
(* fastpath.rs : HampathBuilder                                            *)
(***************************************************************************)
\* A faulty variant: the second element of the window is returned
search_returns_next(neighs, p) ==
    IF \E w \in 1..(Len(p) - 1) : Contains(neighs, p[w + 1])
    THEN LET w == CHOOSE w \in 1..(Len(p) - 1) :
                      /\ Contains(neighs, p[w + 1])
                      /\ \A v \in 1..(w - 1) : ~Contains(neighs, p[v + 1])
         IN  [panic |-> FALSE, id |-> p[w + 1]]
    ELSE [panic |-> TRUE, id |-> 0]

\* A faulty variant: the outer loop runs over the neighbours, not over the windows
search_by_neighbour(neighs, p) ==
    IF \E x \in 1..Len(neighs) : \E w \in 1..(Len(p) - 1) : p[w + 1] = neighs[x]
    THEN LET x == CHOOSE x \in 1..Len(neighs) :
                      /\ \E w \in 1..(Len(p) - 1) : p[w + 1] = neighs[x]
                      /\ \A y \in 1..(x - 1) : \A w \in 1..(Len(p) - 1) : p[w + 1] /= neighs[y]
             w == CHOOSE w \in 1..(Len(p) - 1) : p[w + 1] = neighs[x]
         IN  [panic |-> FALSE, id |-> p[w]]
    ELSE [panic |-> TRUE, id |-> 0]

\* the loop over path.windows(2) from window w on
RECURSIVE search_windows(_, _, _)
search_windows(neighs, p, w) ==
    IF w + 1 > Len(p) THEN [panic |-> TRUE, id |-> 0]
    ELSE IF Contains(neighs, p[w + 1]) THEN [panic |-> FALSE, id |-> p[w]]
    ELSE search_windows(neighs, p, w + 1)

\* A faulty variant: the scan keeps the last matching window, not the first
search_last_match(neighs, p) ==
    IF \E w \in 1..(Len(p) - 1) : Contains(neighs, p[w + 1])
    THEN LET w == CHOOSE w \in 1..(Len(p) - 1) :
                      /\ Contains(neighs, p[w + 1])
                      /\ \A v \in (w + 1)..(Len(p) - 1) : ~Contains(neighs, p[v + 1])
         IN  [panic |-> FALSE, id |-> p[w]]
    ELSE [panic |-> TRUE, id |-> 0]

\* A faulty variant: a scan without a match returns the head, not a panic
search_defaults_to_head(neighs, p) ==
    LET r == search_windows(neighs, p, 1)
    IN  IF r.panic THEN [panic |-> FALSE, id |-> p[1]] ELSE r

\* A faulty variant: the scan misses the first window
search_from_second_window(neighs, p) == search_windows(neighs, p, 2)

search_for_insert_point(neighs, p) == search_windows(neighs, p, 1)

\* A faulty variant: the append case tests the edge new -> last
extend_append_reversed(nd, n, l, new_nid) ==
    IF ~(new_nid < n) THEN [panic |-> TRUE, cur_path |-> l]
    ELSE IF Contains(neighbor_ids(nd[new_nid]), l.first)
         THEN [panic |-> FALSE, cur_path |-> insert_at_start(l, new_nid)]
    ELSE IF Contains(neighbor_ids(nd[new_nid]), l.last)
         THEN [panic |-> FALSE, cur_path |-> insert_at_end(l, new_nid)]
    ELSE LET i_id == search_for_insert_point(neighbor_ids(nd[new_nid]), iter(l))
         IN  IF i_id.panic THEN [panic |-> TRUE, cur_path |-> l]
             ELSE [panic |-> FALSE, cur_path |-> insert_after(l, i_id.id, new_nid)]

\* HampathBuilder::extend on graph nd with num_nodes n and cur_path l
extend(nd, n, l, new_nid) ==
    LET first_nid == l.first
        last_nid  == l.last
    IN  IF ~(new_nid < n) THEN [panic |-> TRUE, cur_path |-> l]
        ELSE IF Contains(neighbor_ids(nd[new_nid]), first_nid)
             THEN [panic |-> FALSE, cur_path |-> insert_at_start(l, new_nid)]
        ELSE IF Contains(neighbor_ids(nd[last_nid]), new_nid)
             THEN [panic |-> FALSE, cur_path |-> insert_at_end(l, new_nid)]
        ELSE LET neighs == neighbor_ids(nd[new_nid])
                 i_id   == search_for_insert_point(neighs, iter(l))
             IN  IF i_id.panic THEN [panic |-> TRUE, cur_path |-> l]
                 ELSE [panic |-> FALSE, cur_path |-> insert_after(l, i_id.id, new_nid)]

(***************************************************************************)
(* Inputs.                                                                 *)
(***************************************************************************)
NodeIDs(k) == 0..(k - 1)

\* the edge lists of fastpath.rs tests::example_1 and tests::example_2
Example1 == << <<0, 1>>, <<2, 0>>, <<0, 3>>, <<0, 4>>, <<2, 1>>,
               <<3, 1>>, <<4, 1>>, <<3, 2>>, <<2, 4>>, <<3, 4>> >>
Example2 == << <<1, 0>>, <<0, 2>>, <<3, 0>>, <<0, 4>>, <<2, 1>>,
               <<3, 1>>, <<1, 4>>, <<2, 3>>, <<2, 4>>, <<4, 3>> >>

\* explicit constructor arguments for k nodes: the edge lists of len edges
\* over the ids of [0,k), self-edges included
EdgeLists(k, len) == SeqsOfLen(NodeIDs(k) \X NodeIDs(k), len)

\* candidate paths offered to validate_path on a graph of k nodes: ids up to
\* k, one of them outside the graph
Candidates(k, len) == SeqsOfLen(0..k, len)

SelfEdgeMsg == "Got request to insert self-edge"
IndexMsg    == "index out of bounds"
ExpectMsg   == "Invalid edge array in construction!"
SearchMsg   == "Did not find insertion point in internal search!"
AssertMsg   == "Tried to extend to node outside the graph"

\* the panic message of a failed new_unchecked
construction_msg(k, es) ==
    IF \E i \in 1..Len(es) :
          /\ es[i][1] = es[i][2]
          /\ \A j \in 1..(i - 1) : es[j][1] /= es[j][2] /\ es[j][1] < k /\ es[j][2] < k
    THEN SelfEdgeMsg ELSE IndexMsg

(***************************************************************************)
(* State machine: one caller, one constructor call, then the solve and the *)
(* validate_path calls made on its result.                                 *)
(***************************************************************************)
NoRun == <<>>

\* no PLinkedList operation made yet, no iterator created yet
NoOp == [name |-> "", tag |-> "", existing |-> None, new |-> None, earlier |-> {}]
NoIter == [live |-> FALSE, cur |-> None, out |-> <<>>, runs |-> 0, first_out |-> <<>>]

Init ==
    /\ pc = "start"
    /\ ctor = ""
    /\ panic_msg = ""
    /\ arg_n = 0
    /\ edges = <<>>
    /\ nodes = empty_nodes(0)
    /\ num_nodes = 0
    /\ last_node = 0
    /\ cur_path = PLinkedList_new(0, 0)
    /\ path = <<>>
    /\ cand = <<>>
    /\ vp = [panic |-> FALSE, rv |-> FALSE]
    /\ vp_calls = 0
    /\ other = NoRun
    /\ placed = {}
    /\ op = NoOp
    /\ it = NoIter

\* TournamentGraph::new(n, edges) called by the user of the graph
GraphNewWith(k, es) ==
    /\ LET r == new(k, es)
       IN  /\ pc' = IF r.tag = "Some" THEN "graph"
                    ELSE IF r.tag = "None" THEN "none" ELSE "panicked"
           /\ panic_msg' = IF r.tag = "panic" THEN construction_msg(k, es) ELSE ""
           /\ nodes' = IF r.tag = "Some" THEN r.nodes ELSE nodes
    /\ arg_n' = k
    /\ edges' = es
    /\ UNCHANGED <<num_nodes, last_node, cur_path, path, cand, vp, vp_calls, other>>
    /\ UNCHANGED list_vars

GraphNew ==
    /\ pc = "start"
    /\ ctor' = "TournamentGraph::new"
    /\ \E k \in 0..MaxGraphN : \E len \in 0..MaxEdges :
        \E es \in EdgeLists(k, len) : GraphNewWith(k, es)

\* the fields of a fresh HampathBuilder over graph nd
BuilderFields(k, nd) ==
    /\ nodes' = nd
    /\ num_nodes' = k
    /\ last_node' = 0
    /\ cur_path' = PLinkedList_new(k, 0)

\* HampathBuilder::new(n, edges): new(..).expect(..)
BuilderNewWith(k, es) ==
    /\ LET r == new(k, es)
       IN  IF r.tag = "Some"
           THEN /\ pc' = "solving"
                /\ panic_msg' = ""
                /\ BuilderFields(k, r.nodes)
           ELSE /\ pc' = "panicked"
                /\ panic_msg' = IF r.tag = "None" THEN ExpectMsg
                                ELSE construction_msg(k, es)
                /\ UNCHANGED <<nodes, num_nodes, last_node, cur_path>>
    /\ arg_n' = k
    /\ edges' = es
    /\ UNCHANGED <<path, cand, vp, vp_calls, other>>
    /\ UNCHANGED list_vars

BuilderNew ==
    /\ pc = "start"
    /\ ctor' = "HampathBuilder::new"
    /\ \/ \E k \in 0..MaxGraphN : \E len \in 0..MaxEdges :
            \E es \in EdgeLists(k, len) : BuilderNewWith(k, es)
       \/ \E es \in {Example1, Example2} : BuilderNewWith(Len(es) \div 2, es)

\* HampathBuilder::new_random(n) for n up to maxn, any coin outcomes
BuilderNewRandom(maxn) ==
    /\ pc = "start"
    /\ ctor' = "HampathBuilder::new_random"
    /\ \E k \in 0..maxn : \E coins \in [1..NumPairs(k) -> BOOLEAN] :
        LET es == random_edges(k, coins)
            r  == new_unchecked(k, es)
        IN  /\ arg_n' = k
            /\ edges' = es
            /\ IF r.panic
               THEN /\ pc' = "panicked"
                    /\ panic_msg' = construction_msg(k, es)
                    /\ UNCHANGED <<nodes, num_nodes, last_node, cur_path>>
               ELSE /\ pc' = "solving"
                    /\ panic_msg' = ""
                    /\ BuilderFields(k, r.nodes)
    /\ UNCHANGED <<path, cand, vp, vp_calls, other>>
    /\ UNCHANGED list_vars

\* A faulty variant: the loop runs once more, up to new_nid = num_nodes
loop_continues_inclusive(last, n) == last + 1 <= n

\* the condition of the while loop of solve_path
loop_continues(last, n) == last + 1 < n

\* one iteration of the while loop of solve_path
Extend ==
    /\ pc = "solving"
    /\ loop_continues(last_node, num_nodes)
    /\ LET r == extend(nodes, num_nodes, cur_path, last_node + 1)
       IN  IF r.panic
           THEN /\ pc' = "panicked"
                /\ panic_msg' = IF last_node + 1 < num_nodes THEN SearchMsg ELSE AssertMsg
                /\ UNCHANGED <<cur_path, last_node>>
           ELSE /\ cur_path' = r.cur_path
                /\ last_node' = last_node + 1
                /\ UNCHANGED <<pc, panic_msg>>
    /\ UNCHANGED <<ctor, arg_n, edges, nodes, num_nodes, path, cand, vp, vp_calls, other>>
    /\ UNCHANGED list_vars

\* the loop of solve_path exits, the list is collected and solution_pair
\* returns the path with the graph
Collect ==
    /\ pc = "solving"
    /\ ~loop_continues(last_node, num_nodes)
    /\ IF iter_panics(cur_path)
       THEN /\ pc' = "panicked"
            /\ panic_msg' = IndexMsg
            /\ UNCHANGED path
       ELSE /\ pc' = "returned"
            /\ path' = iter(cur_path)
            /\ UNCHANGED panic_msg
    /\ UNCHANGED <<ctor, arg_n, edges, nodes, num_nodes, last_node, cur_path, cand, vp, vp_calls, other>>
    /\ UNCHANGED list_vars

\* the effect of graph.validate_path(c) on the caller's state
ValidateCall(c) ==
    LET r == validate_path(nodes, c)
    IN  /\ cand' = c
        /\ vp' = [panic |-> r.panic, rv |-> r.rv]
        /\ vp_calls' = vp_calls + 1
        /\ nodes' = r.nodes
        /\ IF r.panic
           THEN pc' = "panicked" /\ panic_msg' = IndexMsg
           ELSE UNCHANGED <<pc, panic_msg>>
        /\ UNCHANGED <<ctor, arg_n, edges, num_nodes, last_node, cur_path, path, other>>
        /\ UNCHANGED list_vars

\* the first validate_path on a graph obtained from TournamentGraph::new
ValidatePath ==
    /\ pc = "graph"
    /\ vp_calls = 0
    /\ \E len \in 0..(arg_n + 1) : \E c \in Candidates(arg_n, len) : ValidateCall(c)

\* validate_path called again on the same graph with the same candidate
RevalidatePath ==
    /\ pc = "graph"
    /\ vp_calls > 0
    /\ vp_calls < MaxCalls
    /\ ValidateCall(cand)

\* validate_path on the pair returned by solution_pair, as the tests do
ValidateSolution ==
    /\ pc = "returned"
    /\ vp_calls < MaxCalls
    /\ ValidateCall(path)

Next ==
    \/ GraphNew
    \/ BuilderNew
    \/ BuilderNewRandom(MaxN)
    \/ Extend
    \/ Collect
    \/ ValidatePath
    \/ RevalidatePath
    \/ ValidateSolution

Spec == Init /\ [][Next]_vars

(***************************************************************************)
(* A builder over a graph from new_unchecked: the fields of HampathBuilder *)
(* as new and new_random set them, the graph not validated.                *)
(***************************************************************************)
BuilderUnchecked ==
    /\ pc = "start"
    /\ ctor' = "TournamentGraph::new_unchecked"
    /\ \E k \in 0..MaxGraphN : \E len \in 0..MaxEdges : \E es \in EdgeLists(k, len) :
        LET r == new_unchecked(k, es)
        IN  /\ arg_n' = k
            /\ edges' = es
            /\ IF r.panic
               THEN /\ pc' = "panicked"
                    /\ panic_msg' = construction_msg(k, es)
                    /\ UNCHANGED <<nodes, num_nodes, last_node, cur_path>>
               ELSE /\ pc' = "solving"
                    /\ panic_msg' = ""
                    /\ BuilderFields(k, r.nodes)
    /\ UNCHANGED <<path, cand, vp, vp_calls, other>>
    /\ UNCHANGED list_vars

NextUnchecked ==
    \/ BuilderUnchecked
    \/ Extend
    \/ Collect
    \/ ValidateSolution

SpecUnchecked == Init /\ [][NextUnchecked]_vars

(***************************************************************************)
(* Two solves of one tournament: the first on the graph of new_random, the *)
(* second on a graph built by HampathBuilder::new from the same edges      *)
(* listed in another order.                                                *)
(***************************************************************************)
Swap(es, i, j) ==
    [k \in 1..Len(es) |-> IF k = i THEN es[j] ELSE IF k = j THEN es[i] ELSE es[k]]

Reverse(es) == [k \in 1..Len(es) |-> es[Len(es) + 1 - k]]

\* the list itself, the list with two entries exchanged, the list reversed
Reorderings(es) ==
    {es, Reverse(es)} \cup {Swap(es, i, j) : i \in 1..Len(es), j \in 1..Len(es)}

Rebuild ==
    /\ pc = "returned"
    /\ other = NoRun
    /\ other' = <<[edges |-> edges, nodes |-> nodes, path |-> path]>>
    /\ ctor' = "HampathBuilder::new"
    /\ \E es \in Reorderings(edges) :
        LET r == new(arg_n, es)
        IN  /\ edges' = es
            /\ IF r.tag = "Some"
               THEN /\ pc' = "solving"
                    /\ panic_msg' = ""
                    /\ BuilderFields(arg_n, r.nodes)
               ELSE /\ pc' = "panicked"
                    /\ panic_msg' = IF r.tag = "None" THEN ExpectMsg
                                    ELSE construction_msg(arg_n, es)
                    /\ UNCHANGED <<nodes, num_nodes, last_node, cur_path>>
    /\ path' = <<>>
    /\ UNCHANGED <<arg_n, cand, vp, vp_calls>>
    /\ UNCHANGED list_vars

NextDet ==
    \/ BuilderNewRandom(MaxDetN)
    \/ Extend
    \/ Collect
    \/ Rebuild

SpecDet == Init /\ [][NextDet]_vars

(***************************************************************************)
(* A direct user of PLinkedList who keeps its contract: the id given as    *)
(* existing is placed, the id given as new is in range and not yet placed. *)
(* An iterator borrows the list, so no insert runs while one is live.      *)
(***************************************************************************)
\* the record of an operation named nm (tag tg) on ids e and nw, after op
Operation(nm, tg, e, nw) ==
    [name |-> nm, tag |-> tg, existing |-> e, new |-> nw,
     earlier |-> IF op.tag = "" THEN op.earlier ELSE op.earlier \cup {op.tag}]

ListNew ==
    /\ pc = "start"
    /\ pc' = "list"
    /\ \E length \in 1..MaxListLen : \E first_id \in 0..(length - 1) :
        /\ cur_path' = PLinkedList_new(length, first_id)
        /\ placed' = {first_id}
        /\ op' = Operation("new", "", None, Some(first_id))
    /\ it' = NoIter
    /\ UNCHANGED graph_vars

InsertAfter ==
    /\ pc = "list"
    /\ ~it.live
    /\ \E cur \in placed : \E next \in (DOMAIN cur_path.links) \ placed :
        /\ cur_path' = insert_after(cur_path, cur, next)
        /\ placed' = placed \cup {next}
        /\ op' = Operation("insert_after",
                           IF cur = cur_path.last THEN "insert_after(tail)" ELSE "insert_after",
                           Some(cur), Some(next))
    /\ it' = NoIter
    /\ UNCHANGED <<pc, graph_vars>>

InsertAtEnd ==
    /\ pc = "list"
    /\ ~it.live
    /\ \E new_id \in (DOMAIN cur_path.links) \ placed :
        /\ cur_path' = insert_at_end(cur_path, new_id)
        /\ placed' = placed \cup {new_id}
        /\ op' = Operation("insert_at_end", "insert_at_end", None, Some(new_id))
    /\ it' = NoIter
    /\ UNCHANGED <<pc, graph_vars>>

InsertAtStart ==
    /\ pc = "list"
    /\ ~it.live
    /\ \E new_id \in (DOMAIN cur_path.links) \ placed :
        /\ cur_path' = insert_at_start(cur_path, new_id)
        /\ placed' = placed \cup {new_id}
        /\ op' = Operation("insert_at_start", "insert_at_start", None, Some(new_id))
    /\ it' = NoIter
    /\ UNCHANGED <<pc, graph_vars>>

\* iter(): a new iterator over the list
IterNew ==
    /\ pc = "list"
    /\ ~it.live
    /\ it.runs < MaxIters
    /\ it' = [it EXCEPT !.live = TRUE, !.cur = iterator_new(cur_path), !.out = <<>>]
    /\ UNCHANGED <<pc, cur_path, placed, op, graph_vars>>

\* one call of next() on the live iterator; the caller drops it on None
IterNext ==
    /\ pc = "list"
    /\ it.live
    /\ LET r == iterator_next(cur_path, it.cur)
       IN  IF r.rv = None
           THEN it' = [it EXCEPT !.live = FALSE, !.cur = r.cur, !.runs = it.runs + 1,
                                 !.first_out = IF it.runs = 0 THEN it.out ELSE it.first_out]
           ELSE it' = [it EXCEPT !.cur = r.cur, !.out = Append(it.out, r.rv[1])]
    /\ UNCHANGED <<pc, cur_path, placed, op, graph_vars>>

NextList ==
    \/ ListNew
    \/ InsertAfter
    \/ InsertAtEnd
    \/ InsertAtStart
    \/ IterNew
    \/ IterNext

SpecList == Init /\ [][NextList]_vars

(***************************************************************************)
(* Every user of PLinkedList: the solver and the direct user.              *)
(***************************************************************************)
NextAll ==
    \/ Next
    \/ NextList

SpecAll == Init /\ [][NextAll]_vars

(***************************************************************************)
(* One call of solve_path on a builder over a random tournament.  The call *)
(* is sequential code: a loop iteration that can run does run, and so does *)
(* the collect after the loop.                                             *)
(***************************************************************************)
NextSolve ==
    \/ BuilderNewRandom(MaxN)
    \/ Extend
    \/ Collect

SpecSolve == Init /\ [][NextSolve]_vars /\ WF_vars(Extend) /\ WF_vars(Collect)

(***************************************************************************)
(* Vocabulary of the properties.                                           *)
(***************************************************************************)
HasEdge(nd, a, b) == a \in DOMAIN nd /\ \E i \in 1..Len(nd[a]) : nd[a][i] = b

\* the number of times edge a -> b is stored
EdgeCount(nd, a, b) == Cardinality({i \in 1..Len(nd[a]) : nd[a][i] = b})

\* exactly one directed edge per unordered pair, no self-edge, no duplicate
ValidTournament(nd) ==
    \A a \in DOMAIN nd :
        /\ EdgeCount(nd, a, a) = 0
        /\ \A b \in DOMAIN nd :
            /\ EdgeCount(nd, a, b) <= 1
            /\ a /= b => (EdgeCount(nd, a, b) + EdgeCount(nd, b, a) = 1)
        /\ \A i \in 1..Len(nd[a]) : nd[a][i] \in DOMAIN nd

\* every consecutive pair of p is joined by an edge of nd
Chained(nd, p) == \A i \in 1..(Len(p) - 1) : HasEdge(nd, p[i], p[i + 1])

\* p lists every id of S exactly once
PermutationOf(p, S) ==
    /\ Len(p) = Cardinality(S)
    /\ \A x \in S : Cardinality({i \in 1..Len(p) : p[i] = x}) = 1

IsHamiltonianPath(nd, p) == PermutationOf(p, DOMAIN nd) /\ Chained(nd, p)

\* properties of an input edge list es for k nodes
InRange(es, k)  == \A i \in 1..Len(es) : es[i][1] \in NodeIDs(k) /\ es[i][2] \in NodeIDs(k)
HasSelfEdge(es) == \E i \in 1..Len(es) : es[i][1] = es[i][2]
Listed(es, a, b) == \E i \in 1..Len(es) : es[i] = <<a, b>>
MissingPair(es, k) ==
    \E a \in NodeIDs(k) : \E b \in NodeIDs(k) :
        a < b /\ ~Listed(es, a, b) /\ ~Listed(es, b, a)
BothDirections(es) == \E i \in 1..Len(es) : Listed(es, es[i][2], es[i][1])
DuplicateEdge(es) == \E i \in 1..Len(es) : \E j \in 1..Len(es) : i /= j /\ es[i] = es[j]

(***************************************************************************)
(* Properties.                                                             *)
(***************************************************************************)
\* C1: on every valid tournament of n >= 1 nodes the path returned by
\* solution_pair / solve_path has length n, lists every NodeID of [0,n)
\* exactly once, and validate_path on the same graph accepts it.
C1_SolveReturnsHamiltonianPath ==
    (pc = "returned" /\ num_nodes >= 1 /\ ValidTournament(nodes)) =>
        /\ Len(path) = num_nodes
        /\ PermutationOf(path, NodeIDs(num_nodes))
        /\ validate_path(nodes, path).rv
        /\ ~validate_path(nodes, path).panic

\* C1 witness: a solve of at least 4 nodes returned with its last node placed
\* strictly inside the path
C1_Witness ==
    /\ pc = "returned"
    /\ num_nodes >= 4
    /\ ValidTournament(nodes)
    /\ \E i \in 2..(Len(path) - 1) : path[i] = num_nodes - 1

\* C2: validate_path returns true exactly when the candidate has n entries,
\* lists every NodeID of [0,n) once and is chained by edges; it returns
\* false for a length-n candidate with a repeated or out-of-range id.
\* Stated of the calls that return a boolean.
C2_ValidateIffHamiltonian ==
    (vp_calls > 0 /\ ~vp.panic) => (vp.rv <=> IsHamiltonianPath(nodes, cand))

\* C3: an edge list over ids in [0,n) without self-edges that omits a pair,
\* lists both directions of a pair or lists an edge twice makes
\* TournamentGraph::new return None: the caller gets no graph (and the
\* expect of HampathBuilder::new fails on that None).
C3_InvalidEdgeListGivesNone ==
    (/\ ctor \in {"TournamentGraph::new", "HampathBuilder::new"}
     /\ InRange(edges, arg_n)
     /\ ~HasSelfEdge(edges)
     /\ (MissingPair(edges, arg_n) \/ BothDirections(edges) \/ DuplicateEdge(edges)))
    => /\ ctor = "TournamentGraph::new" => (pc = "none" /\ nodes = empty_nodes(0))
       /\ ctor = "HampathBuilder::new" => (pc = "panicked" /\ panic_msg = ExpectMsg)

\* C3 witness: new returned None for a list whose only fault is an edge
\* listed twice
C3_Witness ==
    /\ ctor = "TournamentGraph::new"
    /\ pc = "none"
    /\ DuplicateEdge(edges)
    /\ ~MissingPair(edges, arg_n)
    /\ ~BothDirections(edges)

\* C4: an edge list with a self-edge makes TournamentGraph::new return the
\* recoverable None, as for a missing or bidirectional pair, and not panic.
C4_SelfEdgeGivesNone ==
    (ctor = "TournamentGraph::new" /\ InRange(edges, arg_n) /\ HasSelfEdge(edges))
    => (pc = "none" /\ panic_msg = "")

\* C5: whatever the coin outcomes, the graph built by new_random has all n
\* nodes and passes is_valid_tournament_graph: no self-edge, no duplicate
\* edge, exactly one direction for every unordered pair.
C5_RandomGraphIsTournament ==
    ctor = "HampathBuilder::new_random" =>
        /\ panic_msg \notin {SelfEdgeMsg, ExpectMsg}
        /\ DOMAIN nodes = NodeIDs(arg_n)
        /\ is_valid_tournament_graph(nodes)
        /\ ValidTournament(nodes)

\* C5 witness: a random graph of at least 3 nodes with coins of both outcomes
C5_Witness ==
    /\ ctor = "HampathBuilder::new_random"
    /\ arg_n >= 3
    /\ HasEdge(nodes, 1, 0)
    /\ HasEdge(nodes, 0, 2)

C7_ExampleAsStated ==
    (ctor = "HampathBuilder::new" /\ edges = Example1 /\ pc = "returned") =>
        /\ PermutationOf(path, NodeIDs(arg_n))
        /\ validate_path(nodes, path).rv
        /\ validate_path(nodes, <<0, 2, 3, 4, 1>>).rv

\* C7 (amended): on the 5-node tournament of example_1 solve_path returns
\* [3,2,0,4,1], a permutation of 0..4 that validate_path accepts; the
\* sequence [0,2,3,4,1] is rejected by validate_path, the graph having the
\* edge 2 -> 0 and no edge 0 -> 2.
C7_ExampleSolved ==
    (ctor = "HampathBuilder::new" /\ edges = Example1 /\ pc = "returned") =>
        /\ path = <<3, 2, 0, 4, 1>>
        /\ PermutationOf(path, NodeIDs(arg_n))
        /\ validate_path(nodes, path).rv
        /\ ~validate_path(nodes, <<0, 2, 3, 4, 1>>).rv
        /\ ~validate_path(nodes, <<0, 2, 3, 4, 1>>).panic
        /\ HasEdge(nodes, 2, 0) /\ ~HasEdge(nodes, 0, 2)

\* C7 witness: the solve of example_1 returned and its path was validated
C7_Witness ==
    /\ ctor = "HampathBuilder::new"
    /\ edges = Example1
    /\ pc = "returned"
    /\ vp_calls > 0
    /\ vp.rv

\* C8: solve_path is deterministic: a builder on a graph of the same node
\* count and the same edge set returns the same path, whatever the order in
\* which the edges were listed at construction.
C8_Deterministic ==
    other /= NoRun =>
        /\ Range(edges) = Range(other[1].edges)
        /\ pc /= "panicked"
        /\ pc = "returned" => path = other[1].path

\* C8 witness: the second solve returned, its graph stores some node's
\* out_edges in another order than the first, and the last node was placed
\* strictly inside the path
C8_Witness ==
    /\ other /= NoRun
    /\ pc = "returned"
    /\ nodes /= other[1].nodes
    /\ \E i \in 2..(Len(path) - 1) : path[i] = num_nodes - 1

\* C9: validate_path is a pure query: a call leaves every node's out_edges
\* as they were, and a call repeated with the same candidate returns the
\* same boolean as the call before.
C9_ValidatePathIsPure ==
    [][(vp_calls' = vp_calls + 1) =>
          /\ nodes' = nodes
          /\ (vp_calls > 0 /\ cand' = cand) => vp' = vp]_vars

\* C9 witness: validate_path returned true twice for one candidate on a
\* graph of at least 3 nodes
C9_Witness ==
    /\ pc = "graph"
    /\ vp_calls >= 2
    /\ vp.rv
    /\ arg_n >= 3

\* C10: on a valid tournament, for the initial list [0] and after every
\* extend step, the head-to-tail traversal of the list holds exactly the
\* nodes 0..k, each once (k the last node placed), and every consecutive
\* pair (a,b) of it has an edge a -> b.
C10_PathInvariant ==
    (pc = "solving" /\ num_nodes >= 1 /\ ValidTournament(nodes)) =>
        LET p == iter(cur_path)
        IN  /\ PermutationOf(p, 0..last_node)
            /\ Chained(nodes, p)

\* C10 witness: an extend step has placed node k >= 3 strictly inside the list
C10_Witness ==
    /\ pc = "solving"
    /\ last_node >= 3
    /\ ValidTournament(nodes)
    /\ LET p == iter(cur_path)
       IN  \E i \in 2..(Len(p) - 1) : p[i] = last_node

\* the position of id x in the sequence p that lists it
IndexOf(p, x) == CHOOSE i \in 1..Len(p) : p[i] = x

\* the solver is about to place node k on a valid tournament, and neither
\* boundary case applies: no edge k -> head, no edge tail -> k
InteriorCase(k) ==
    /\ pc = "solving"
    /\ k = last_node + 1
    /\ k < num_nodes
    /\ ~HasEdge(nodes, k, cur_path.first)
    /\ ~HasEdge(nodes, cur_path.last, k)

\* C11: on a valid tournament, whenever extend reaches the interior case for
\* node k, the scan does not reach its panic: the step places k between a
\* consecutive pair (prev, next) of the path before, and both edges prev -> k
\* and k -> next exist.
C11_InteriorScanSucceeds ==
    [][(ValidTournament(nodes) /\ InteriorCase(last_node + 1)) =>
          LET k  == last_node + 1
              p  == iter(cur_path)
              q  == iter(cur_path')
          IN  /\ pc' = "solving"
              /\ panic_msg' = ""
              /\ Contains(q, k)
              /\ LET i == IndexOf(q, k)
                 IN  /\ 1 < i /\ i < Len(q)
                     /\ \E w \in 1..(Len(p) - 1) : p[w] = q[i - 1] /\ p[w + 1] = q[i + 1]
                     /\ HasEdge(nodes, q[i - 1], k)
                     /\ HasEdge(nodes, k, q[i + 1])]_vars

\* C11 witness: on a valid tournament node k >= 2 was placed strictly inside
\* the path, so head and tail are those extend saw: no edge k -> head and no
\* edge tail -> k
C11_Witness ==
    /\ pc = "solving"
    /\ ValidTournament(nodes)
    /\ last_node >= 2
    /\ LET q == iter(cur_path)
           k == last_node
       IN  /\ \E i \in 2..(Len(q) - 1) : q[i] = k
           /\ ~HasEdge(nodes, k, cur_path.first)
           /\ ~HasEdge(nodes, cur_path.last, k)

\* sequence p with x put in directly after position w
SpliceAt(p, w, x) == SubSeq(p, 1, w) \o <<x>> \o SubSeq(p, w + 1, Len(p))

\* C12: in the interior case node k is inserted immediately after prev, where
\* (prev, next) is the first consecutive pair, scanning from the head, with an
\* edge k -> next: no pair closer to the head has an edge from k into its
\* second element, and a later matching pair is never the one chosen.
C12_FirstMatchingPair ==
    [][(InteriorCase(last_node + 1) /\ last_node' = last_node + 1) =>
          LET k == last_node + 1
              p == iter(cur_path)
              q == iter(cur_path')
          IN  \E w \in 1..(Len(p) - 1) :
                  /\ HasEdge(nodes, k, p[w + 1])
                  /\ \A v \in 1..(w - 1) : ~HasEdge(nodes, k, p[v + 1])
                  /\ q = SpliceAt(p, w, k)]_vars

\* C12 witness: node k was placed strictly inside the path in the interior
\* case, and a pair further from the head also has an edge from k into its
\* second element
C12_Witness ==
    /\ pc = "solving"
    /\ last_node >= 3
    /\ LET q == iter(cur_path)
           k == last_node
       IN  /\ ~HasEdge(nodes, k, cur_path.first)
           /\ ~HasEdge(nodes, cur_path.last, k)
           /\ \E i \in 2..(Len(q) - 1) :
                  /\ q[i] = k
                  /\ HasEdge(nodes, k, q[i + 1])
                  /\ \E j \in (i + 2)..Len(q) : HasEdge(nodes, k, q[j])

\* no consecutive pair of p has an edge from k into its second element
NoMatchingPair(nd, p, k) == \A w \in 1..(Len(p) - 1) : ~HasEdge(nd, k, p[w + 1])

\* C13: if neither boundary case applies and the interior scan finds no pair
\* with an edge k -> next (a single-element path has no pair at all), extend
\* terminates with the fatal error of the scan: k is not inserted, and the
\* solve never returns a path.
C13_FailedScanIsFatal ==
    /\ [][(InteriorCase(last_node + 1) /\ NoMatchingPair(nodes, iter(cur_path), last_node + 1)) =>
              /\ pc' = "panicked"
              /\ panic_msg' = SearchMsg
              /\ cur_path' = cur_path
              /\ last_node' = last_node
              /\ path' = <<>>]_vars
    /\ [][pc = "panicked" => (pc' = "panicked" /\ path' = <<>>)]_vars

\* C13 witness: the scan failed on a single-element path: node 1 has no edge
\* to node 0 and node 0 has none to node 1
C13_Witness ==
    /\ pc = "panicked"
    /\ panic_msg = SearchMsg
    /\ num_nodes >= 2
    /\ last_node = 0
    /\ iter(cur_path) = <<0>>
    /\ ~HasEdge(nodes, 1, 0) /\ ~HasEdge(nodes, 0, 1)
    /\ path = <<>>

\* C14: for every n >= 1 and every valid tournament, solve_path starts from
\* the list [0], calls extend exactly n - 1 times with k = 1, ..., n - 1 in
\* increasing order (each k < n, so the assertion of extend never fails) and
\* then terminates; for n = 1 it performs no extend and returns [0].
C14_SolveTerminates ==
    /\ (pc = "solving" /\ num_nodes >= 1) ~> (pc = "returned")
    /\ [][(pc = "start" /\ pc' = "solving") =>
              (last_node' = 0 /\ (num_nodes' >= 1 => iter(cur_path') = <<0>>))]_vars
    /\ [][(pc = "solving" /\ num_nodes >= 1 /\ cur_path' /= cur_path) =>
              /\ last_node' = last_node + 1
              /\ last_node' < num_nodes
              /\ pc' = "solving"
              /\ iter(cur_path') = SpliceAt(iter(cur_path), IndexOf(iter(cur_path'), last_node') - 1,
                                            last_node')]_vars
    /\ [][(pc = "solving" /\ num_nodes >= 1 /\ pc' = "returned") =>
              /\ last_node = num_nodes - 1
              /\ cur_path' = cur_path
              /\ Len(path') = num_nodes
              /\ num_nodes = 1 => path' = <<0>>]_vars
    /\ [](num_nodes >= 1 => (pc /= "panicked" /\ panic_msg /= AssertMsg
                             /\ Len(iter(cur_path)) = last_node + 1))

\* C14 witness: a solve of the longest tournament has returned after placing
\* every k up to n - 1
C14_Witness ==
    /\ pc = "returned"
    /\ num_nodes = MaxN
    /\ last_node = num_nodes - 1
    /\ Len(path) = num_nodes

\* the solve of the one-node tournament has returned [0] with no extend
C14_SingleNodeWitness ==
    /\ pc = "returned"
    /\ num_nodes = 1
    /\ last_node = 0
    /\ path = <<0>>

\* the link reached from id x after following `steps` successor links
RECURSIVE Follow(_, _, _)
Follow(links, x, steps) ==
    IF steps = 0 THEN Some(x)
    ELSE LET before == Follow(links, x, steps - 1)
         IN  IF before = None THEN None ELSE links[before[1]]

\* no id comes back to itself along the successor links
NoCycle(l) ==
    \A x \in DOMAIN l.links :
        \A steps \in 1..Cardinality(DOMAIN l.links) : Follow(l.links, x, steps) /= Some(x)

\* the links from the head are one chain over exactly the ids of S, ending
\* without a successor
SingleChain(l, S) ==
    LET len == Cardinality(S)
    IN  /\ \A i \in 0..(len - 1) : Follow(l.links, l.first, i) /= None
        /\ {Follow(l.links, l.first, i)[1] : i \in 0..(len - 1)} = S
        /\ Follow(l.links, l.first, len) = None

\* C15: after any sequence of insert_after / insert_at_start / insert_at_end
\* that respects the contract (existing placed, new unplaced, ids in range),
\* the successor links of a PLinkedList contain no cycle, and once all n ids
\* are placed the links from the head form a single chain that visits each
\* id of 0..n-1 exactly once.
C15_LinksFormChain ==
    pc = "list" =>
        /\ NoCycle(cur_path)
        /\ placed = DOMAIN cur_path.links =>
               SingleChain(cur_path, 0..(Cardinality(DOMAIN cur_path.links) - 1))

\* C15 witness: all ids of a list of four are placed, by all three kinds of
\* insert
C15_Witness ==
    /\ pc = "list"
    /\ Cardinality(DOMAIN cur_path.links) >= 4
    /\ placed = DOMAIN cur_path.links
    /\ {"insert_after", "insert_at_start", "insert_at_end"}
           \subseteq (op.earlier \cup {op.tag})

\* the step is a call of the PLinkedList operation named nm
ListStep(nm) == pc = "list" /\ placed' /= placed /\ op'.name = nm

\* C16: insert_after(existing, new) makes new the immediate successor of
\* existing; if existing was the tail, new becomes the tail and has no
\* successor, otherwise the successor of new is the former successor of
\* existing and the tail is unchanged; the head and the other links are
\* unchanged, and the traversal is the previous one with new spliced in
\* directly after existing.
C16_InsertAfterSplices ==
    [][ListStep("insert_after") =>
          LET existing == op'.existing[1]
              nw       == op'.new[1]
              p        == iter(cur_path)
          IN  /\ cur_path'.links[existing] = Some(nw)
              /\ IF existing = cur_path.last
                 THEN cur_path'.last = nw /\ cur_path'.links[nw] = None
                 ELSE /\ cur_path'.links[nw] = cur_path.links[existing]
                      /\ cur_path'.links[nw] /= None
                      /\ cur_path'.last = cur_path.last
              /\ cur_path'.first = cur_path.first
              /\ \A x \in DOMAIN cur_path.links \ {existing, nw} :
                     cur_path'.links[x] = cur_path.links[x]
              /\ iter(cur_path') = SpliceAt(p, IndexOf(p, existing), nw)]_vars

\* C16 witness: insert_after has put an id between two placed ids, after an
\* earlier insert_after on the tail
C16_Witness ==
    /\ pc = "list"
    /\ op.name = "insert_after"
    /\ op.tag = "insert_after"
    /\ "insert_after(tail)" \in op.earlier
    /\ cur_path.links[op.existing[1]] = op.new
    /\ cur_path.links[op.new[1]] /= None
    /\ op.new[1] /= cur_path.last

\* C17: insert_at_start(new) makes new the head with the previous head as
\* its successor; the tail and all other links are unchanged; the traversal
\* is new followed by the previous traversal.
C17_InsertAtStartPrepends ==
    [][ListStep("insert_at_start") =>
          LET nw == op'.new[1]
          IN  /\ cur_path'.first = nw
              /\ cur_path'.links[nw] = Some(cur_path.first)
              /\ cur_path'.last = cur_path.last
              /\ \A x \in DOMAIN cur_path.links \ {nw} :
                     cur_path'.links[x] = cur_path.links[x]
              /\ iter(cur_path') = <<nw>> \o iter(cur_path)]_vars

\* C17 witness: insert_at_start has put a new head before a list of two ids
\* or more
C17_Witness ==
    /\ pc = "list"
    /\ op.name = "insert_at_start"
    /\ cur_path.first = op.new[1]
    /\ Cardinality(placed) >= 3
    /\ Len(iter(cur_path)) >= 3

\* C18: insert_at_end(new) makes new the successor of the previous tail and
\* the new tail, with no successor; the head and the other links are
\* unchanged; the traversal is the previous traversal followed by new, also
\* when the operations before included insert_after on the tail or
\* insert_at_start.
C18_InsertAtEndAppends ==
    [][ListStep("insert_at_end") =>
          LET nw == op'.new[1]
          IN  /\ cur_path'.links[cur_path.last] = Some(nw)
              /\ cur_path'.last = nw
              /\ cur_path'.links[nw] = None
              /\ cur_path'.first = cur_path.first
              /\ \A x \in DOMAIN cur_path.links \ {cur_path.last} :
                     cur_path'.links[x] = cur_path.links[x]
              /\ iter(cur_path') = Append(iter(cur_path), nw)]_vars

\* C18 witness: insert_at_end has appended an id after an insert_after on the
\* tail and an insert_at_start
C18_Witness ==
    /\ pc = "list"
    /\ op.name = "insert_at_end"
    /\ {"insert_after(tail)", "insert_at_start"} \subseteq op.earlier
    /\ cur_path.last = op.new[1]
    /\ iter(cur_path)[Len(iter(cur_path))] = op.new[1]

\* s starts at the head of l and each item is the successor of the one before
FollowsLinks(l, s) ==
    /\ Len(s) >= 1 => s[1] = l.first
    /\ \A i \in 1..(Len(s) - 1) : l.links[s[i]] = Some(s[i + 1])

\* s lists the ids of S from the head of l to its tail
HeadToTail(l, s, S) ==
    /\ FollowsLinks(l, s)
    /\ Len(s) = Cardinality(S)
    /\ Range(s) = S
    /\ s[Len(s)] = l.last
    /\ l.links[l.last] = None

\* C19: on a well-formed PLinkedList, iter() yields the placed ids from head
\* to tail by following the links and ends after finitely many items (as
\* many as are placed); iterating changes neither head, tail nor any link;
\* a second iter() yields the same sequence.
C19_IterIsReadOnly ==
    /\ [](pc = "list" =>
            /\ FollowsLinks(cur_path, it.out)
            /\ Len(it.out) <= Cardinality(placed)
            /\ (it.live /\ Len(it.out) = Cardinality(placed)) => it.cur = None
            /\ (~it.live /\ it.runs >= 1) => HeadToTail(cur_path, it.out, placed)
            /\ (~it.live /\ it.runs >= 2) => it.out = it.first_out)
    /\ [][(pc = "list" /\ it.live) => cur_path' = cur_path]_vars
    /\ [][(pc = "list" /\ ~it.live /\ it'.live) => cur_path' = cur_path]_vars

\* C19 witness: a second iter() over a list of three ids or more has ended
C19_Witness ==
    /\ pc = "list"
    /\ ~it.live
    /\ it.runs >= 2
    /\ Len(it.out) >= 3
    /\ it.out = it.first_out
    /\ it.out = iter(cur_path)

\* sequence p without the occurrences of x
RECURSIVE Without(_, _)
Without(p, x) ==
    IF p = <<>> THEN <<>>
    ELSE IF Head(p) = x THEN Without(Tail(p), x)
    ELSE <<Head(p)>> \o Without(Tail(p), x)

\* C20: every extend step preserves the relative order of the nodes already
\* placed: the path after placing k, with k removed, equals the path before
\* placing k.
C20_ExtendKeepsOrder ==
    [][(pc = "solving" /\ pc' = "solving" /\ last_node' = last_node + 1) =>
          /\ Contains(iter(cur_path'), last_node')
          /\ Without(iter(cur_path'), last_node') = iter(cur_path)]_vars

\* C20 witness: node k >= 3 was placed between nodes placed before it, which
\* are all still listed
C20_Witness ==
    /\ pc = "solving"
    /\ last_node >= 3
    /\ LET q == iter(cur_path)
       IN  /\ \E i \in 2..(Len(q) - 1) : q[i] = last_node
           /\ PermutationOf(Without(q, last_node), 0..(last_node - 1))

\* cur_path is a list made by PLinkedList::new with an id in range: the one
\* of a direct user, or the one of a builder over a graph with a node
ListInUse ==
    \/ pc = "list"
    \/ pc \in {"solving", "returned"} /\ num_nodes >= 1

\* C21: in every state reachable through contract-respecting inserts, and so
\* throughout solve_path, first() is the first id yielded by iter(), last()
\* is the final id yielded by iter(), and the successor of last() is none.
C21_FirstLastAreEnds ==
    /\ ListInUse =>
           LET s == iter(cur_path)
           IN  /\ Len(s) >= 1
               /\ PLinkedList_first(cur_path) = s[1]
               /\ PLinkedList_last(cur_path) = s[Len(s)]
               /\ get_succ(cur_path, PLinkedList_last(cur_path)) = None
    /\ (pc = "list" /\ ~it.live /\ it.runs >= 1) =>
           /\ it.out /= <<>>
           /\ PLinkedList_first(cur_path) = it.out[1]
           /\ PLinkedList_last(cur_path) = it.out[Len(it.out)]

\* C21 witness: an iter() has ended over a list of three ids or more built
\* with all three kinds of insert, head and tail being different ids
C21_Witness ==
    /\ pc = "list"
    /\ ~it.live
    /\ it.runs >= 1
    /\ Len(it.out) >= 3
    /\ {"insert_after", "insert_at_start", "insert_at_end"}
           \subseteq (op.earlier \cup {op.tag})
    /\ PLinkedList_first(cur_path) /= PLinkedList_last(cur_path)

\* the same inside solve_path: node k >= 2 is the tail and a prepend has
\* moved the head away from node 0
C21_SolverWitness ==
    /\ pc = "solving"
    /\ last_node >= 2
    /\ PLinkedList_last(cur_path) = last_node
    /\ PLinkedList_first(cur_path) /= 0

====
